---- MODULE Spec2Model ----
(***************************************************************************)
(* CPU scheduling simulation of project1.py: the tick loops of run_fcfs    *)
(* and run_srt over the CPU and Process objects.  One behaviour is one run *)
(* of one algorithm on one workload.  Every loop iteration (one tick) is   *)
(* four steps, in the order of the code: the burst check, the I/O drain,   *)
(* the arrival drain, and the dispatch (remove, admit, loop exit or clock  *)
(* increment).                                                             *)
(*                                                                         *)
(* Process ids are the numbers 1, 2, 3: pid i stands for the i-th name     *)
(* in lexicographic order ("A" < "B" < "C"), which is the order the code's *)
(* sort keys compare them in.                                              *)
(***************************************************************************)
EXTENDS Integers, Sequences, FiniteSets, TLC

VARIABLES
    procs,      \* the workload: the list read_file returns, in file order
    alg,        \* "FCFS" (run_fcfs) or "SRT" (run_srt)
    t_cs,       \* the module global t_cs
    cpu,        \* the CPU object of the run
    ps,         \* the deep-copied Process objects, by pid
    removed,    \* the loop's local variable
    pc,         \* position in the loop body
    out         \* the events printed so far

vars == <<procs, alg, t_cs, cpu, ps, removed, pc, out>>

(***************************************************************************)
(* Bounds of the workloads.                                                *)
(***************************************************************************)
ArrivalStep == 5
MaxArrivalSteps == 3
MaxBurst == 5
MaxNum == 2
MaxIo == 5
MaxTcs == 5

(* t_cs = 8 *)
T_CS == 8

(* self._curr = None *)
None == 0

(***************************************************************************)
(* Helpers on sequences.                                                   *)
(***************************************************************************)
Range(s) == {s[i] : i \in 1..Len(s)}

PidsOf(w) == {w[i].pid : i \in 1..Len(w)}

(* n = len( procs ), set by the main block *)
n == Len(procs)

Half == t_cs \div 2

(***************************************************************************)
(* Sort keys.  SRT: (obj._remaining, obj._pid); FCFS I/O drain: obj._pid.  *)
(***************************************************************************)
(* Mutant: the SRT key without the remaining time. *)
SrtKeyLess_by_pid(P, x, y) == x < y

SrtKeyLess(P, x, y) ==
    \/ P[x].remaining < P[y].remaining
    \/ P[x].remaining = P[y].remaining /\ x < y

FcfsKeyLess(P, x, y) == x < y

KeyLess(P, x, y) == IF alg = "SRT" THEN SrtKeyLess(P, x, y) ELSE FcfsKeyLess(P, x, y)

(* Stable insertion of x into the sorted sequence s. *)
Insert(P, s, x) ==
    LET k == Cardinality({i \in 1..Len(s) : ~KeyLess(P, x, s[i])})
    IN  SubSeq(s, 1, k) \o <<x>> \o SubSeq(s, k + 1, Len(s))

RECURSIVE Sorted(_, _)
(* sorted( s, key = ... ) *)
Sorted(P, s) ==
    IF s = <<>> THEN <<>>
    ELSE Insert(P, Sorted(P, SubSeq(s, 1, Len(s) - 1)), s[Len(s)])

RECURSIVE SortedSet(_, _)
(* sorted( [ proc for proc in ... if ... ], key = ... ): the candidates are *)
(* distinct objects with distinct keys.                                     *)
SortedSet(P, S) ==
    IF S = {} THEN <<>>
    ELSE LET m == CHOOSE x \in S : \A y \in S \ {x} : KeyLess(P, x, y)
         IN  <<m>> \o SortedSet(P, S \ {m})

(***************************************************************************)
(* A machine state m is [cpu, ps, removed, out]; the methods of CPU and    *)
(* the blocks of the loop body map m to m.                                 *)
(***************************************************************************)
(* print( "time {}ms: Process {} ...".format( cpu._ticker, ... ) ): the     *)
(* event, its time and its process                                          *)
Emit(m, ev, p) ==
    [m EXCEPT !.out = Append(@, [t |-> m.cpu.ticker, ev |-> ev, pid |-> p])]

(* Mutant: add charges the whole context switch. *)
add_full_switch(m, proc) ==
    [m EXCEPT !.ps[proc].start = m.cpu.ticker,
              !.cpu.total_wait = @ + (m.cpu.ticker - m.ps[proc].readied),
              !.cpu.ticker = @ + t_cs,
              !.cpu.curr = proc,
              !.cpu.context = @ + 1]

(* CPU.add *)
add(m, proc) ==
    [m EXCEPT !.ps[proc].start = m.cpu.ticker,
              !.cpu.total_wait = @ + (m.cpu.ticker - m.ps[proc].readied),
              !.cpu.ticker = @ + Half,
              !.cpu.curr = proc,
              !.cpu.context = @ + 1]

(* Mutant: ready puts the process at the front of the queue. *)
ready_front(m, proc) ==
    [m EXCEPT !.ps[proc].readied = m.cpu.ticker,
              !.ps[proc].last_arrival = m.cpu.ticker,
              !.cpu.ready = <<proc>> \o @]

(* CPU.ready *)
ready(m, proc) ==
    [m EXCEPT !.ps[proc].readied = m.cpu.ticker,
              !.ps[proc].last_arrival = m.cpu.ticker,
              !.cpu.ready = Append(@, proc)]

(* Mutant: remove charges the whole context switch. *)
remove_full_switch(m) ==
    [m EXCEPT !.cpu.ticker = @ + t_cs,
              !.cpu.total_turnaround =
                    @ + ((m.cpu.ticker + t_cs) - m.ps[m.cpu.curr].last_arrival),
              !.cpu.curr = None]

(* CPU.remove *)
remove(m) ==
    [m EXCEPT !.cpu.ticker = @ + Half,
              !.cpu.total_turnaround =
                    @ + ((m.cpu.ticker + Half) - m.ps[m.cpu.curr].last_arrival),
              !.cpu.curr = None]

(* Mutant: a preemption counted as two context switches. *)
preempt_two_switches(m, proc) ==
    [m EXCEPT !.cpu.ticker = @ + Half + Half,
              !.ps[m.cpu.curr].readied = m.cpu.ticker + Half,
              !.cpu.ready = <<m.cpu.curr>> \o @,
              !.cpu.curr = proc,
              !.ps[proc].remaining = @ - 1,
              !.cpu.context = @ + 2,
              !.cpu.preempt = @ + 1]

(* Mutant: a preemption is not counted as a context switch. *)
preempt_uncounted(m, proc) ==
    [m EXCEPT !.cpu.ticker = @ + Half + Half,
              !.ps[m.cpu.curr].readied = m.cpu.ticker + Half,
              !.cpu.ready = <<m.cpu.curr>> \o @,
              !.cpu.curr = proc,
              !.ps[proc].remaining = @ - 1,
              !.cpu.preempt = @ + 1]

(* CPU.preempt *)
preempt(m, proc) ==
    [m EXCEPT !.cpu.ticker = @ + Half + Half,
              !.ps[m.cpu.curr].readied = m.cpu.ticker + Half,
              !.cpu.ready = <<m.cpu.curr>> \o @,
              !.cpu.curr = proc,
              !.ps[proc].remaining = @ - 1,
              !.cpu.context = @ + 1,
              !.cpu.preempt = @ + 1]

(***************************************************************************)
(* The dictionaries cpu._io and cpu._finished.                             *)
(***************************************************************************)
Put(f, k, v) == [x \in DOMAIN f \cup {k} |-> IF x = k THEN v ELSE f[x]]

Del(f, k) == [x \in DOMAIN f \ {k} |-> f[x]]

(***************************************************************************)
(* The check for a finished burst at the head of the loop body.            *)
(***************************************************************************)
(* cpu._io[cpu._curr] = cpu._ticker + (cpu._curr)._io + (t_cs // 2) *)
IoFinish(tick, io) == tick + io + Half

(* run_fcfs: "if ( cpu._curr != None ): ..." *)
fcfs_burst_check(m0) ==
    LET m == [m0 EXCEPT !.removed = FALSE]
        c == m.cpu.curr
    IN  IF c = None THEN m
        ELSE IF m.ps[c].remaining <= 0
        THEN LET m1 == [m EXCEPT !.ps[c].num = @ - 1]
             IN  IF m1.ps[c].num > 0
                 THEN [Emit(Emit(m1, "completed", c), "blocked", c) EXCEPT
                          !.cpu.io = Put(@, c, IoFinish(m.cpu.ticker, m.ps[c].io)),
                          !.removed = TRUE]
                 ELSE [Emit(m1, "terminated", c) EXCEPT
                          !.cpu.finished = Put(@, c, m.cpu.ticker),
                          !.removed = TRUE]
        ELSE [m EXCEPT !.ps[c].remaining = @ - 1]

(* Mutant: the burst is taken as finished one tick late. *)
srt_burst_check_late(m0) ==
    LET m == [m0 EXCEPT !.removed = FALSE]
        c == m.cpu.curr
    IN  IF c = None THEN m
        ELSE IF m.ps[c].remaining < 0
        THEN LET m1 == [m EXCEPT !.ps[c].num = @ - 1]
             IN  IF m1.ps[c].num > 0
                 THEN [Emit(Emit(m1, "completed", c), "blocked", c) EXCEPT
                          !.ps[c].remaining = m.ps[c].burst,
                          !.cpu.io = Put(@, c, IoFinish(m.cpu.ticker, m.ps[c].io)),
                          !.removed = TRUE]
                 ELSE [Emit(m1, "terminated", c) EXCEPT
                          !.cpu.finished = Put(@, c, m.cpu.ticker),
                          !.removed = TRUE]
        ELSE [m EXCEPT !.ps[c].remaining = @ - 1]

(* run_srt: the same, and the remaining time is reset when the process blocks *)
srt_burst_check(m0) ==
    LET m == [m0 EXCEPT !.removed = FALSE]
        c == m.cpu.curr
    IN  IF c = None THEN m
        ELSE IF m.ps[c].remaining <= 0
        THEN LET m1 == [m EXCEPT !.ps[c].num = @ - 1]
             IN  IF m1.ps[c].num > 0
                 THEN [Emit(Emit(m1, "completed", c), "blocked", c) EXCEPT
                          !.ps[c].remaining = m.ps[c].burst,
                          !.cpu.io = Put(@, c, IoFinish(m.cpu.ticker, m.ps[c].io)),
                          !.removed = TRUE]
                 ELSE [Emit(m1, "terminated", c) EXCEPT
                          !.cpu.finished = Put(@, c, m.cpu.ticker),
                          !.removed = TRUE]
        ELSE [m EXCEPT !.ps[c].remaining = @ - 1]

(***************************************************************************)
(* The drains of I/O completions and of arrivals.                          *)
(***************************************************************************)
(* [ proc for proc, tick in (cpu._io).items() if tick == cpu._ticker ] *)
IoDone(m) == {p \in DOMAIN m.cpu.io : m.cpu.io[p] = m.cpu.ticker}

(* [ proc for proc in cpu._procs if proc._arrival == cpu._ticker ] *)
Arrived(m) == {p \in DOMAIN m.ps : m.ps[p].arrival = m.cpu.ticker}

RECURSIVE fcfs_io_ready(_, _)
(* run_fcfs: "for proc in io_done: cpu.ready( proc ); del cpu._io[proc]" *)
fcfs_io_ready(m, s) ==
    IF s = <<>> THEN m
    ELSE fcfs_io_ready(
            Emit([ready(m, Head(s)) EXCEPT !.cpu.io = Del(@, Head(s))],
                 "io_ready", Head(s)),
            Tail(s))

fcfs_io_drain(m) == fcfs_io_ready(m, SortedSet(m.ps, IoDone(m)))

RECURSIVE fcfs_arrivals(_, _)
(* run_fcfs: "for proc in cpu._procs: if ( proc._arrival == cpu._ticker )" *)
fcfs_arrivals(m, s) ==
    IF s = <<>> THEN m
    ELSE fcfs_arrivals(
            IF m.ps[Head(s)].arrival = m.cpu.ticker
            THEN Emit(ready([m EXCEPT !.ps[Head(s)].last_arrival = m.cpu.ticker],
                            Head(s)),
                      "arrived", Head(s))
            ELSE m,
            Tail(s))

fcfs_arrival_drain(m) == fcfs_arrivals(m, [i \in 1..Len(procs) |-> procs[i].pid])

(* Mutant: a candidate with the same remaining time preempts. *)
should_preempt_nonstrict(cand, running) == cand <= running

(* "io_done[0]._remaining < (cpu._curr)._remaining" *)
should_preempt(cand, running) == cand < running

RECURSIVE srt_ready(_, _, _)
(* run_srt: "for proc in ...: cpu.ready( proc ); cpu._ready = deque( sorted(" *)
srt_ready(m, s, ev) ==
    IF s = <<>> THEN m
    ELSE LET m1 == ready(m, Head(s))
             m2 == [m1 EXCEPT !.cpu.ready = Sorted(m1.ps, @)]
         IN  srt_ready(Emit(m2, ev, Head(s)), Tail(s), ev)

(* run_srt: the body of "if ( io_done ):" and of "if ( arrived ):" *)
srt_drain(m, cands, evPreempt, evReady) ==
    IF cands = <<>> THEN m
    ELSE LET pre == /\ m.cpu.curr # None
                    /\ ~m.removed
                    /\ should_preempt(m.ps[cands[1]].remaining,
                                      m.ps[m.cpu.curr].remaining)
             m1 == IF pre
                   THEN Emit(preempt(Emit(m, evPreempt, cands[1]), cands[1]),
                             "started", cands[1])
                   ELSE m
         IN  srt_ready(m1, IF pre THEN Tail(cands) ELSE cands, evReady)

srt_io_drain(m) == srt_drain(m, SortedSet(m.ps, IoDone(m)), "io_preempt", "io_ready")

srt_arrival_drain(m) ==
    srt_drain(m, SortedSet(m.ps, Arrived(m)), "arrival_preempt", "arrived")

(***************************************************************************)
(* The end of the loop body: remove, admit.                                *)
(***************************************************************************)
(* "if ( removed ): cpu.remove()" *)
do_remove(m) == IF m.removed THEN remove(m) ELSE m

(* Mutant: nothing is admitted in the tick of a switch-out. *)
fcfs_admit_next_tick(m) ==
    IF m.cpu.curr = None /\ m.cpu.ready # <<>> /\ ~m.removed
    THEN LET p  == Head(m.cpu.ready)
             m1 == add([m EXCEPT !.cpu.ready = Tail(@)], p)
         IN  Emit([m1 EXCEPT !.ps[p].remaining = m.ps[p].burst - 1], "started", p)
    ELSE m

(* run_fcfs: "if ( cpu._curr == None ): if ( cpu._ready ): cpu.add(...)" *)
fcfs_admit(m) ==
    IF m.cpu.curr = None /\ m.cpu.ready # <<>>
    THEN LET p  == Head(m.cpu.ready)
             m1 == add([m EXCEPT !.cpu.ready = Tail(@)], p)
         IN  Emit([m1 EXCEPT !.ps[p].remaining = m.ps[p].burst - 1], "started", p)
    ELSE m

(* Mutant: a resumed process starts a fresh full burst. *)
srt_admit_fresh(m) ==
    IF m.cpu.curr = None /\ m.cpu.ready # <<>>
    THEN LET p  == Head(m.cpu.ready)
             m1 == add([m EXCEPT !.cpu.ready = Tail(@)], p)
             m2 == [m1 EXCEPT !.ps[p].start = m1.cpu.ticker - Half]
         IN  Emit([m2 EXCEPT !.ps[p].remaining = m.ps[p].burst - 1],
                  IF m2.ps[p].remaining = m2.ps[p].burst THEN "started"
                                                         ELSE "resumed", p)
    ELSE m

(* run_srt: the same, but a preempted process keeps its remaining time *)
srt_admit(m) ==
    IF m.cpu.curr = None /\ m.cpu.ready # <<>>
    THEN LET p  == Head(m.cpu.ready)
             m1 == add([m EXCEPT !.cpu.ready = Tail(@)], p)
             m2 == [m1 EXCEPT !.ps[p].start = m1.cpu.ticker - Half]
         IN  IF m2.ps[p].remaining = m2.ps[p].burst
             THEN Emit([m2 EXCEPT !.ps[p].remaining = m.ps[p].burst - 1],
                       "started", p)
             ELSE Emit(m2, "resumed", p)
    ELSE m

(* Mutant: the loop is left as soon as one process has terminated. *)
loop_exit_any(m) == Cardinality(DOMAIN m.cpu.finished) >= 1

(* "if ( len(cpu._finished) == n ): break" *)
loop_exit(m) == Cardinality(DOMAIN m.cpu.finished) = n

(***************************************************************************)
(* The initial state: CPU.__init__ on the deep copy of the workload.       *)
(***************************************************************************)
(* Process.__init__ *)
NewProcess(r) ==
    [start |-> 0, readied |-> 0, last_arrival |-> r.arrival,
     remaining |-> r.burst, pid |-> r.pid, arrival |-> r.arrival,
     burst |-> r.burst, num |-> r.num, io |-> r.io]

(* CPU.__init__ *)
NewCpu ==
    [total_turnaround |-> 0, total_wait |-> 0, context |-> 0, preempt |-> 0,
     ticker |-> 0, curr |-> None, ready |-> <<>>,
     finished |-> [x \in {} |-> 0], io |-> [x \in {} |-> 0]]

(* The lines of the input file: pid|arrival|burst|num|io.  The io field of *)
(* a process with a single burst is never read: it is 0 in the workloads.  *)
Arrivals == {k * ArrivalStep : k \in 0..MaxArrivalSteps}

Lines(pids, arrivals, nums, ios) ==
    {l \in [pid : pids, arrival : arrivals, burst : 1..MaxBurst,
            num : nums, io : ios] : l.num = 1 => l.io = 0}

(* One process, with every I/O time up to MaxIo. *)
Singles == {<<x>> : x \in Lines({1}, Arrivals, 1..MaxNum, 0..MaxIo)}

(* Two processes, in either order of their pids; the first arrives at 0. *)
Pairs ==
    {w \in {<<x, y>> : x \in Lines({1, 2}, {0}, 1..MaxNum, {0, MaxIo}),
                       y \in Lines({1, 2}, Arrivals, 1..MaxNum, {0, MaxIo})} :
        w[1].pid # w[2].pid}

(* Three processes: the first arrives at 0; the other two have one burst  *)
(* and are listed in the order of their arrival.                          *)
Triples ==
    {w \in {<<x, y, z>> : x \in Lines({1}, {0}, 1..MaxNum, {0, MaxIo}),
                          y \in Lines({2}, Arrivals, {1}, {0}),
                          z \in Lines({3}, Arrivals, {1}, {0})} :
        w[2].arrival <= w[3].arrival}

Workloads == Singles \cup Pairs \cup Triples

Init ==
    /\ procs \in Workloads
    /\ alg \in {"FCFS", "SRT"}
    /\ t_cs = T_CS
    /\ cpu = NewCpu
    /\ ps = [p \in PidsOf(procs) |->
                NewProcess(CHOOSE r \in Range(procs) : r.pid = p)]
    /\ removed = FALSE
    /\ pc = "burst"
    /\ out = <<>>

(***************************************************************************)
(* The steps of one loop iteration.                                        *)
(***************************************************************************)
M == [cpu |-> cpu, ps |-> ps, removed |-> removed, out |-> out]

Set(m, next) ==
    /\ cpu' = m.cpu
    /\ ps' = m.ps
    /\ removed' = m.removed
    /\ out' = m.out
    /\ pc' = next
    /\ UNCHANGED <<procs, alg, t_cs>>

BurstCheck ==
    /\ pc = "burst"
    /\ Set(IF alg = "FCFS" THEN fcfs_burst_check(M) ELSE srt_burst_check(M), "io")

IoDrain ==
    /\ pc = "io"
    /\ Set(IF alg = "FCFS" THEN fcfs_io_drain(M) ELSE srt_io_drain(M), "arrive")

ArrivalDrain ==
    /\ pc = "arrive"
    /\ Set(IF alg = "FCFS" THEN fcfs_arrival_drain(M) ELSE srt_arrival_drain(M),
           "dispatch")

(* p has arrived: it is in one of the containers of the CPU *)
InSystem(p) ==
    \/ cpu.curr = p
    \/ p \in Range(cpu.ready)
    \/ p \in DOMAIN cpu.io
    \/ p \in DOMAIN cpu.finished

(* The drains of this tick are done, nothing runs or waits, the run is not *)
(* over, and the clock is past every recorded I/O completion and every     *)
(* arrival still to come: every later iteration only increments the clock. *)
(* The model follows a run up to here.                                     *)
Spinning ==
    /\ pc = "dispatch"
    /\ ~removed
    /\ cpu.curr = None
    /\ cpu.ready = <<>>
    /\ ~loop_exit(M)
    /\ \A p \in DOMAIN cpu.io : cpu.io[p] <= cpu.ticker
    /\ \A p \in DOMAIN ps : ~InSystem(p) => ps[p].arrival <= cpu.ticker

(* remove, admit, and then the loop exit or "cpu._ticker += 1" *)
Dispatch ==
    /\ pc = "dispatch"
    /\ ~Spinning
    /\ LET m1 == do_remove(M)
           m2 == IF alg = "FCFS" THEN fcfs_admit(m1) ELSE srt_admit(m1)
       IN  IF loop_exit(m2)
           THEN Set(Emit(m2, "ended", None), "done")
           ELSE Set([m2 EXCEPT !.cpu.ticker = @ + 1], "burst")

Next == BurstCheck \/ IoDrain \/ ArrivalDrain \/ Dispatch

Spec == Init /\ [][Next]_vars

(***************************************************************************)
(* Runs under other values of the module global t_cs.                      *)
(***************************************************************************)
TcsValues == 0..MaxTcs

(* One process, or two processes of one burst each. *)
TcsWorkloads == Singles \cup {w \in Pairs : w[1].num = 1 /\ w[2].num = 1}

InitTcs ==
    /\ procs \in TcsWorkloads
    /\ alg \in {"FCFS", "SRT"}
    /\ t_cs \in TcsValues
    /\ cpu = NewCpu
    /\ ps = [p \in PidsOf(procs) |->
                NewProcess(CHOOSE r \in Range(procs) : r.pid = p)]
    /\ removed = FALSE
    /\ pc = "burst"
    /\ out = <<>>

SpecTcs == InitTcs /\ [][Next]_vars

(***************************************************************************)
(* run_rr: the CPU object is built, "Simulator started" and "Simulator     *)
(* ended" are printed at the clock of the new CPU, the averages are        *)
(* computed and the result is returned.  There is no loop.                 *)
(***************************************************************************)
InitRR ==
    /\ procs \in Workloads
    /\ alg = "RR"
    /\ t_cs = T_CS
    /\ cpu = NewCpu
    /\ ps = [p \in PidsOf(procs) |->
                NewProcess(CHOOSE r \in Range(procs) : r.pid = p)]
    /\ removed = FALSE
    /\ pc = "burst"
    /\ out = <<>>

run_rr ==
    /\ alg = "RR"
    /\ pc = "burst"
    /\ Set(Emit(M, "ended", None), "done")

NextRR == run_rr

SpecRR == InitRR /\ [][NextRR]_vars

(***************************************************************************)
(* Vocabulary of the properties.                                           *)
(***************************************************************************)
(* The end of a tick: the loop body has run to its end. *)
TickEnd == pc \in {"burst", "done"}

InReady(p) == p \in Range(cpu.ready)

(* The number of containers of the CPU that hold p. *)
Containers(p) ==
    (IF cpu.curr = p THEN 1 ELSE 0) + (IF InReady(p) THEN 1 ELSE 0)
    + (IF p \in DOMAIN cpu.io THEN 1 ELSE 0)
    + (IF p \in DOMAIN cpu.finished THEN 1 ELSE 0)

(* p is blocked on I/O: it is in cpu._io and nowhere else. *)
Blocked(p) ==
    /\ p \in DOMAIN cpu.io
    /\ cpu.curr # p
    /\ ~InReady(p)
    /\ p \notin DOMAIN cpu.finished

(* The events printed by the step. *)
NewEvents == SubSeq(out', Len(out) + 1, Len(out'))

Count(s, evs) == Cardinality({i \in 1..Len(s) : s[i].ev \in evs})

HasEvent(ev, p, t) ==
    \E i \in 1..Len(out) : out[i].ev = ev /\ out[i].pid = p /\ out[i].t = t

(* self._total_num *)
TotalNum == LET RECURSIVE Sum(_)
                Sum(i) == IF i = 0 THEN 0 ELSE procs[i].num + Sum(i - 1)
            IN  Sum(Len(procs))

(* C1: every FCFS run and every SRT run leaves the tick loop: no run reaches
   a state from which the loop only increments the clock for ever. *)
C1_RunEnds == ~Spinning

(* C2: at the end of every tick, every process that has arrived is in
   exactly one of _curr, _ready, _io and _finished, and no process is in the
   ready queue twice. *)
C2_OneContainer ==
    TickEnd =>
        /\ \A p \in DOMAIN ps : InSystem(p) => Containers(p) = 1
        /\ \A i, j \in 1..Len(cpu.ready) : i # j => cpu.ready[i] # cpu.ready[j]

(* C3: in every state of an SRT run the ready queue is in ascending order of
   (remaining time, pid). *)
C3_SrtReadySorted ==
    alg = "SRT" =>
        \A i \in 1..(Len(cpu.ready) - 1) :
            SrtKeyLess(ps, cpu.ready[i], cpu.ready[i + 1])

(* The processes that become ready in the drain the step runs. *)
Candidates == IF pc = "io" THEN IoDone(M) ELSE Arrived(M)

(* C4: a step preempts only if the process it puts on the CPU is the best
   of the processes that became ready in that drain, by (remaining time,
   pid), and its remaining time is strictly less than that of the process
   that was running, which goes to the ready queue. *)
C4_StrictPreemption ==
    [][cpu'.preempt # cpu.preempt =>
          /\ alg = "SRT"
          /\ cpu.curr # None
          /\ cpu'.curr \in Candidates
          /\ \A q \in Candidates \ {cpu'.curr} : SrtKeyLess(ps, cpu'.curr, q)
          /\ ps[cpu'.curr].remaining < ps[cpu.curr].remaining
          /\ cpu.curr \in Range(cpu'.ready)]_vars

(* A preemption with a second candidate that is put into the ready queue. *)
C4_Witness ==
    \E i \in 1..(Len(out) - 2) :
        /\ out[i].ev = "arrival_preempt"
        /\ out[i + 2].ev = "arrived"
        /\ out[i + 2].t = out[i + 1].t

(* C5: a step changes context_switch_count by the number of "started using
   the CPU" events it prints, which is at most one, and preemption_count by
   the number of "will preempt" events it prints, which is at most one; a
   step that preempts adds exactly 1 to each; the process on the CPU changes
   to a new process only in a step that adds 1 to context_switch_count. *)
C5_CountersStep ==
    [][/\ cpu'.context - cpu.context = Count(NewEvents, {"started", "resumed"})
       /\ cpu'.preempt - cpu.preempt =
              Count(NewEvents, {"io_preempt", "arrival_preempt"})
       /\ cpu'.context - cpu.context \in {0, 1}
       /\ cpu'.preempt - cpu.preempt \in {0, 1}
       /\ cpu'.preempt # cpu.preempt => cpu'.context = cpu.context + 1
       /\ (cpu'.curr # None /\ cpu'.curr # cpu.curr)
              <=> cpu'.context = cpu.context + 1]_vars

C5_Witness == cpu.preempt >= 1 /\ cpu.context >= 3

(* The workload A|0|4|1|0 *)
C6_Workload == <<[pid |-> 1, arrival |-> 0, burst |-> 4, num |-> 1, io |-> 0]>>

C6_Ended == procs = C6_Workload /\ pc = "done"

C6_Report ==
    /\ cpu.total_wait = 0 * TotalNum
    /\ cpu.total_turnaround = 12 * TotalNum
    /\ cpu.context = 1
    /\ cpu.preempt = 0

(* C6 as claimed: on A|0|4|1|0 the process starts using the CPU at 4,
   terminates at 12, and the run reports wait 0, turnaround 12, one context
   switch, no preemption. *)
C6_Original ==
    C6_Ended => HasEvent("started", 1, 4) /\ HasEvent("terminated", 1, 12) /\ C6_Report

(* C6 as amended: on A|0|4|1|0 the process starts using the CPU at 4,
   terminates at 8, the run ends at 12 after the switch-out, and it reports
   wait 0, turnaround 12, one context switch, no preemption. *)
C6_Scenario ==
    C6_Ended =>
        /\ HasEvent("started", 1, 4)
        /\ HasEvent("terminated", 1, 8)
        /\ cpu.finished[1] = 8
        /\ HasEvent("ended", None, 12)
        /\ C6_Report

C6_Witness == C6_Ended /\ alg = "FCFS"

(* The pid of the first process that started using the CPU. *)
Starts == {i \in 1..Len(out) : out[i].ev = "started"}

FirstStarted == out[CHOOSE i \in Starts : \A j \in Starts : i <= j].pid

BothAtZero == Len(procs) = 2 /\ procs[1].arrival = 0 /\ procs[2].arrival = 0

(* C7: of two processes that both arrive at 0, FCFS admits first the one
   that is first in the workload, whatever the burst lengths; if their
   bursts are 5 and 3, SRT admits first the one with burst 3, whatever its
   pid and its place in the workload. *)
C7_FirstAdmitted ==
    (BothAtZero /\ Starts # {}) =>
        /\ alg = "FCFS" => FirstStarted = procs[1].pid
        /\ (alg = "SRT" /\ {procs[1].burst, procs[2].burst} = {5, 3}) =>
              ps[FirstStarted].burst = 3

(* SRT has admitted the process with burst 3, of the higher pid and second
   in the workload. *)
C7_Witness ==
    /\ BothAtZero /\ Starts # {} /\ alg = "SRT"
    /\ procs[1].burst = 5 /\ procs[2].burst = 3
    /\ procs[1].pid < procs[2].pid
    /\ FirstStarted = procs[2].pid

(* C8: a blocked process leaves the blocked state at the tick whose clock is
   its recorded completion time: when the I/O drain is about to run, no
   blocked process has a completion time that the clock has passed. *)
C8_IoCompletionOnTime ==
    pc = "io" => \A p \in DOMAIN ps : Blocked(p) => cpu.io[p] >= cpu.ticker

(* C9: every process arrives at the tick whose clock is its arrival time:
   when the arrival drain is about to run, no process that has not arrived
   has an arrival time that the clock has passed. *)
C9_ArrivalOnTime ==
    pc = "arrive" => \A p \in DOMAIN ps : ~InSystem(p) => ps[p].arrival >= cpu.ticker

(* burst_count of p *)
BurstCount(p) == (CHOOSE r \in Range(procs) : r.pid = p).num

(* C10: _num stays between 0 and burst_count; it is 0 exactly when the
   process is recorded as terminated; and at the end of every tick a
   terminated process is not running, not in the ready queue and not in the
   blocked mapping. *)
C10_BurstsLeft ==
    \A p \in DOMAIN ps :
        /\ ps[p].num \in 0..BurstCount(p)
        /\ ps[p].num = 0 <=> p \in DOMAIN cpu.finished
        /\ (TickEnd /\ p \in DOMAIN cpu.finished) =>
              cpu.curr # p /\ ~InReady(p) /\ p \notin DOMAIN cpu.io

(* C11 as claimed: when a run has ended, the number of "terminated" events
   it printed is the sum of burst_count over the processes of the workload. *)
C11_Original == pc = "done" => Count(out, {"terminated"}) = TotalNum

(* C11 as amended: when a run has ended, the number of "terminated" events
   it printed is the number of processes of the workload, and the number of
   burst ends ("completed a CPU burst" and "terminated" together) is the sum
   of burst_count. *)
C11_TerminatedOnce ==
    pc = "done" =>
        /\ Count(out, {"terminated"}) = n
        /\ \A p \in DOMAIN ps :
              Cardinality({i \in 1..Len(out) :
                              out[i].ev = "terminated" /\ out[i].pid = p}) = 1
        /\ Count(out, {"completed", "terminated"}) = TotalNum

(* A run of three processes, one of them with two bursts, has ended. *)
C11_Witness == pc = "done" /\ n = 3 /\ TotalNum = 4

(* The indices of the events ev of process p. *)
EventsOf(ev, p) == {i \in 1..Len(out) : out[i].ev = ev /\ out[i].pid = p}

(* The place of p in the ready queue. *)
PlaceInReady(p) == CHOOSE i \in 1..Len(cpu.ready) : cpu.ready[i] = p

(* An I/O completion of p (event i) and the arrival of q (event j) in the
   same tick. *)
SameTick(i, j) ==
    /\ out[i].ev \in {"io_ready", "io_preempt"}
    /\ out[j].ev \in {"arrived", "arrival_preempt"}
    /\ out[i].t = out[j].t
    /\ out[i].pid # out[j].pid

(* C12: when an I/O completion of p and the arrival of q are in the same
   tick, the I/O completion is printed first; under FCFS, after the drains of
   that tick p is in the ready queue ahead of q, and q starts using the CPU
   only after p has started after that tick. *)
C12_IoBeforeArrival ==
    \A i, j \in 1..Len(out) :
        SameTick(i, j) =>
            /\ i < j
            /\ (alg = "FCFS" /\ pc = "dispatch" /\ out[i].t = cpu.ticker) =>
                  /\ InReady(out[i].pid) /\ InReady(out[j].pid)
                  /\ PlaceInReady(out[i].pid) < PlaceInReady(out[j].pid)
            /\ alg = "FCFS" =>
                  \A k \in EventsOf("started", out[j].pid) :
                      k > j => \E h \in EventsOf("started", out[i].pid) :
                                  i < h /\ h < k

(* Under FCFS, in a workload of three processes, an I/O completion and an
   arrival were in the same tick, and the arriving process has started
   since. *)
C12_Witness ==
    /\ alg = "FCFS" /\ n = 3
    /\ \E i, j \in 1..Len(out) :
          /\ SameTick(i, j)
          /\ \E k \in EventsOf("started", out[j].pid) : k > j

(* The clock time a step charges, without the "cpu._ticker += 1" at the end
   of an iteration that does not leave the loop. *)
Charged ==
    cpu'.ticker - cpu.ticker - (IF pc = "dispatch" /\ pc' = "burst" THEN 1 ELSE 0)

(* The halves of a context switch the step makes: CPU.remove is one half,
   CPU.add is one half, CPU.preempt is two. *)
Halves ==
    (IF pc = "dispatch" /\ removed THEN 1 ELSE 0)
    + (IF pc = "dispatch" THEN cpu'.context - cpu.context ELSE 0)
    + 2 * (cpu'.preempt - cpu.preempt)

(* C13: every step charges half of t_cs of clock time for each CPU.add and
   each CPU.remove it makes and t_cs for each CPU.preempt, so that a switch
   out and a switch in together charge exactly t_cs, for every value of
   t_cs. *)
C13_FullSwitch == [][2 * Charged = t_cs * Halves]_vars

(* A workload of a single process with io_burst_length = 0. *)
SingleNoIo == n = 1 /\ procs[1].io = 0

(* total_turnaround = total_wait + burst_count * cpu_burst_length
                      + burst_count * t_cs *)
TurnaroundRelation ==
    cpu.total_turnaround =
        cpu.total_wait + procs[1].num * procs[1].burst + procs[1].num * t_cs

(* C14: on a workload of a single process with io_burst_length = 0 and any
   burst_count, the run ends, and it ends with total_turnaround =
   total_wait + burst_count * cpu_burst_length + burst_count * t_cs. *)
C14_SingleTurnaround ==
    SingleNoIo => /\ ~Spinning
                  /\ pc = "done" => TurnaroundRelation

(* C15: a Round-Robin run prints "Simulator ended" only after every process
   of the workload has terminated, each with all its bursts completed.
   (run_rr never preempts: the part of the claim about the time slice has
   no case in the code.) *)
C15_RrEndsAfterAll ==
    (alg = "RR" /\ pc = "done") =>
        /\ \A p \in DOMAIN ps : p \in DOMAIN cpu.finished /\ ps[p].num = 0
        /\ Count(out, {"completed", "terminated"}) = TotalNum

(* C16: in every state of an FCFS or SRT run the remaining burst time of
   every process is between 0 and its cpu_burst_length. *)
C16_RemainingInRange ==
    \A p \in DOMAIN ps : ps[p].remaining >= 0 /\ ps[p].remaining <= ps[p].burst

(* A process of burst 1 has just preempted at its arrival: CPU.preempt has
   taken its remaining time to 0. *)
C16_Witness ==
    /\ Len(out) >= 2
    /\ out[Len(out) - 1].ev = "arrival_preempt"
    /\ out[Len(out)].ev = "started"
    /\ cpu.curr = out[Len(out)].pid
    /\ ps[cpu.curr].burst = 1
    /\ ps[cpu.curr].remaining = 0

(* The run intervals read off the first i events: the process in the running
   slot and the time it entered it (the "started" event, after the switch
   in), the time each process has run in its present burst over the
   intervals that a preemption closed (at the "will preempt" event, before
   the switch), and whether every burst that ended had run for exactly
   cpu_burst_length. *)
RECURSIVE RunLog(_)
RunLog(i) ==
    IF i = 0
    THEN [cur |-> None, since |-> 0, ran |-> [p \in DOMAIN ps |-> 0], exact |-> TRUE]
    ELSE LET r == RunLog(i - 1)
             e == out[i]
         IN  CASE e.ev \in {"started", "resumed"} ->
                    [r EXCEPT !.cur = e.pid, !.since = e.t]
               [] e.ev \in {"io_preempt", "arrival_preempt"} ->
                    [r EXCEPT !.cur = None, !.ran[r.cur] = @ + (e.t - r.since)]
               [] e.ev \in {"completed", "terminated"} ->
                    [r EXCEPT !.cur = None, !.ran[e.pid] = 0,
                              !.exact = /\ @
                                        /\ r.cur = e.pid
                                        /\ r.ran[e.pid] + (e.t - r.since)
                                               = ps[e.pid].burst]
               [] OTHER -> r

(* C17: under SRT, every burst that completes has been in the running slot
   for exactly cpu_burst_length of clock time, summed over its run intervals
   from its first start through every resumption after a preemption, the
   context switches not counted. *)
C17_BurstRunsItsLength == alg = "SRT" => RunLog(Len(out)).exact

(* A process that was preempted and resumed has completed its burst. *)
C17_Witness ==
    /\ alg = "SRT"
    /\ \E i, j \in 1..Len(out) :
          /\ i < j
          /\ out[i].ev = "resumed"
          /\ out[j].ev \in {"completed", "terminated"}
          /\ out[j].pid = out[i].pid

(* The time at which p became ready for its present burst: the time of its
   arrival or of its latest I/O completion. *)
ReadyEvents(p) ==
    {i \in 1..Len(out) :
        /\ out[i].pid = p
        /\ out[i].ev \in {"arrived", "arrival_preempt", "io_ready", "io_preempt"}}

ReadyTime(p) ==
    out[CHOOSE i \in ReadyEvents(p) : \A j \in ReadyEvents(p) : j <= i].t

(* C18: the step that switches out a process whose burst has ended adds to
   total_turnaround the clock after the switch-out half minus the time at
   which the process became ready for that burst, also when the process
   entered the CPU by preempting at its arrival or I/O completion. *)
C18_TurnaroundPerBurst ==
    [][(pc = "dispatch" /\ removed) =>
          cpu'.total_turnaround - cpu.total_turnaround
              = (cpu.ticker + Half) - ReadyTime(cpu.curr)]_vars

(* C19: at the end of every tick, if the running slot is empty then the
   ready queue is empty; and the step that switches out a process whose
   burst has ended while the ready queue is not empty puts the head of the
   queue on the CPU in that same step. *)
C19_NeverIdle ==
    /\ (TickEnd /\ cpu.curr = None) => cpu.ready = <<>>
    /\ [][/\ (TickEnd' /\ cpu'.curr = None) => cpu'.ready = <<>>
          /\ (pc = "dispatch" /\ removed /\ cpu.ready # <<>>) =>
                /\ cpu'.curr = Head(cpu.ready)
                /\ cpu'.ready = Tail(cpu.ready)
                /\ cpu'.context = cpu.context + 1]_vars

(* A process has terminated while another was waiting, and that one was put
   on the CPU a whole context switch later, in the same tick. *)
C19_Witness ==
    \E i, j \in 1..Len(out) :
        /\ i < j
        /\ out[i].ev = "terminated"
        /\ out[j].ev \in {"started", "resumed"}
        /\ out[j].pid # out[i].pid
        /\ out[j].t = out[i].t + t_cs
        /\ cpu.curr = out[j].pid

(* C20: when a run has left its loop, every process of the workload is
   terminated, the running slot and the ready queue are empty, and the last
   two events are the "terminated" of the last process and "Simulator
   ended", half of t_cs later. *)
C20_ExitWhenAllTerminated ==
    pc = "done" =>
        /\ \A p \in DOMAIN ps : p \in DOMAIN cpu.finished /\ ps[p].num = 0
        /\ cpu.curr = None
        /\ cpu.ready = <<>>
        /\ Len(out) >= 2
        /\ out[Len(out)].ev = "ended"
        /\ out[Len(out) - 1].ev = "terminated"
        /\ \A i \in 1..Len(out) :
              out[i].ev = "terminated" => out[i].t <= out[Len(out) - 1].t
        /\ 2 * (out[Len(out)].t - out[Len(out) - 1].t) = t_cs
        /\ out[Len(out)].t = cpu.ticker

(* An SRT run of three processes with a preemption has left its loop. *)
C20_Witness == pc = "done" /\ alg = "SRT" /\ n = 3 /\ cpu.preempt >= 1

(* C21: when a run has ended, context_switch_count is the sum of burst_count
   over the processes of the workload plus preemption_count; under FCFS
   preemption_count is 0 in every state, so that context_switch_count is the
   sum of burst_count at the end. *)
C21_SwitchesAtEnd ==
    /\ alg = "FCFS" => cpu.preempt = 0
    /\ pc = "done" =>
          /\ cpu.context = TotalNum + cpu.preempt
          /\ alg = "FCFS" => cpu.context = TotalNum

(* An SRT run with two preemptions, one of them by a process that completed
   its I/O, has ended. *)
C21_Witness ==
    /\ pc = "done" /\ alg = "SRT"
    /\ cpu.preempt = 2
    /\ Count(out, {"io_preempt"}) >= 1

====
